---- MODULE Spec2Model ----
(***************************************************************************)
(* eipw-action: the pull-request gate that fetches the changed files of a  *)
(* pull request, selects the proposal files, runs the eipw linter on them  *)
(* and reports each diagnostic as an annotation.                           *)
(*                                                                         *)
(* The repository holds five builds of main(); the variable ver says which *)
(* one a run executes:                                                     *)
(*   "lib"       src/lib/main.js                                           *)
(*   "legacy_ts" src/unnamed/part_002, lines 145-267                       *)
(*   "legacy_js" src/unnamed/part_002, lines 9-131                         *)
(*   "throttled" src/unnamed/part_003                                      *)
(*   "main_ts"   src/src/main.ts                                           *)
(* Strings are TLA+ strings; positions follow JavaScript (0-based) in the  *)
(* operators named after JavaScript methods.                               *)
(***************************************************************************)
EXTENDS Integers, Sequences, FiniteSets, TLC

VARIABLES
    ver,          \* which build of main() runs
    env,          \* the workflow: trigger event and action inputs
    srvChanges,   \* hosting API: the pull request's changed files, in API order
    perPage,      \* hosting API: entries per page of listFiles
    optionsDisk,  \* file system: what reading and parsing the options file gives
    lintOutput,   \* linter: the diagnostics eipw.lint returns in this run
    pc,           \* main(): position (the await it is suspended at)
    include,      \* main(): include patterns
    unchecked,    \* main(): exclusion list
    page,         \* main(): page counter of the do-while loop
    retryCount,   \* transport: options.request.retryCount of the request in flight
    status,       \* main(): response.status of the last page response (0: none yet)
    fetched,      \* main(): entries of the last response
    files,        \* main(): paths selected so far
    levelConfig,  \* main(): options handed to the linter
    result,       \* main(): diagnostics returned by the linter
    linted,       \* main(): eipw.lint has returned
    idx,          \* main(): diagnostics reported so far by the for-of loop
    hasErrors,    \* main(): the verdict accumulator
    caught,       \* main(): the value bound by the catch clause, NoError if none
    pageReqs,     \* hosting API log: page numbers requested, in order
    processed,    \* hosting API log: entries main() has iterated over, in order
    lintCalls,    \* linter log: arguments of each eipw.lint call
    annotations,  \* runner log: core.notice / core.warning / core.error calls
    failures,     \* runner log: core.setFailed messages
    comments      \* hosting API log: issues.createComment calls

vars == <<ver, env, srvChanges, perPage, optionsDisk, lintOutput, pc, include,
          unchecked, page, retryCount, status, fetched, files, levelConfig,
          result, linted, idx, hasErrors, caught, pageReqs, processed,
          lintCalls, annotations, failures, comments>>

-----------------------------------------------------------------------------
(* JavaScript string and path primitives *)

charAt(s, i) == SubSeq(s, i + 1, i + 1)

RECURSIVE IndexOfFrom(_, _, _)
IndexOfFrom(s, c, i) ==
    IF i >= Len(s) THEN -1
    ELSE IF charAt(s, i) = c THEN i
    ELSE IndexOfFrom(s, c, i + 1)

indexOf(s, c) == IndexOfFrom(s, c, 0)

RECURSIVE LastIndexOfFrom(_, _, _)
LastIndexOfFrom(s, c, i) ==
    IF i < 0 THEN -1
    ELSE IF charAt(s, i) = c THEN i
    ELSE LastIndexOfFrom(s, c, i - 1)

lastIndexOf(s, c) == LastIndexOfFrom(s, c, Len(s) - 1)

slice(s, from) == SubSeq(s, from + 1, Len(s))

startsWith(s, prefix) ==
    Len(prefix) <= Len(s) /\ SubSeq(s, 1, Len(prefix)) = prefix

endsWith(s, suffix) ==
    Len(suffix) <= Len(s) /\ SubSeq(s, Len(s) - Len(suffix) + 1, Len(s)) = suffix

RECURSIVE trimStart(_)
trimStart(s) == IF s # "" /\ charAt(s, 0) = " " THEN trimStart(slice(s, 1)) ELSE s

RECURSIVE trimEnd(_)
trimEnd(s) ==
    IF s # "" /\ charAt(s, Len(s) - 1) = " "
    THEN trimEnd(SubSeq(s, 1, Len(s) - 1))
    ELSE s

trim(s) == trimEnd(trimStart(s))

\* String.prototype.split with a one-character separator: "" splits to <<"">>.
RECURSIVE split(_, _)
split(s, sep) ==
    LET i == indexOf(s, sep)
    IN  IF i < 0 THEN <<s>>
        ELSE <<SubSeq(s, 1, i)>> \o split(slice(s, i + 1), sep)

\* The value JavaScript's Number() gives for a string that is no number.
NaN == -1

IsDigit(c) == c \in {"0", "1", "2", "3", "4", "5", "6", "7", "8", "9"}

DigitValue(c) ==
    CASE c = "0" -> 0 [] c = "1" -> 1 [] c = "2" -> 2 [] c = "3" -> 3
      [] c = "4" -> 4 [] c = "5" -> 5 [] c = "6" -> 6 [] c = "7" -> 7
      [] c = "8" -> 8 [] c = "9" -> 9

RECURSIVE DecimalValue(_, _)
DecimalValue(s, acc) ==
    IF s = "" THEN acc
    ELSE DecimalValue(slice(s, 1), acc * 10 + DigitValue(charAt(s, 0)))

\* Number(string): surrounding blanks are dropped, the empty string is 0, a
\* run of decimal digits is its value, anything else of the model's alphabet
\* (letters, dash, dot, slash) is NaN.
NumberOfTrimmed(t) ==
    IF t = "" THEN 0
    ELSE IF \A i \in 0..(Len(t) - 1) : IsDigit(charAt(t, i))
         THEN DecimalValue(t, 0)
    ELSE NaN

Number(s) == NumberOfTrimmed(trim(s))

\* === on numbers: NaN is equal to nothing, itself included.
StrictEquals(a, b) == a # NaN /\ b # NaN /\ a = b

\* node:path parse() on a POSIX path without trailing slash.
\* The extension starts at the last dot of the base, unless that dot leads it.
ParsedBase(dir, base, dot) ==
    [dir |-> dir, base |-> base,
     ext  |-> IF dot <= 0 THEN "" ELSE slice(base, dot),
     name |-> IF dot <= 0 THEN base ELSE SubSeq(base, 1, dot)]

\* The base follows the last slash, the directory precedes it.
ParsedAt(input, sl) ==
    ParsedBase(IF sl < 0 THEN "" ELSE IF sl = 0 THEN "/" ELSE SubSeq(input, 1, sl),
               slice(input, sl + 1),
               lastIndexOf(slice(input, sl + 1), "."))

PathParse(input) == ParsedAt(input, lastIndexOf(input, "/"))

\* node:path join() of the working directory and a relative file name; the
\* inputs of the model need no further normalisation.
PathJoin(dir, filename) == IF dir = "" THEN filename ELSE dir \o "/" \o filename

\* minimatch: one path segment against one pattern segment ("*" and "?" stay
\* inside the segment).
RECURSIVE GlobSegment(_, _)
GlobSegment(s, p) ==
    IF p = "" THEN s = ""
    ELSE IF charAt(p, 0) = "*"
         THEN GlobSegment(s, slice(p, 1)) \/ (s # "" /\ GlobSegment(slice(s, 1), p))
    ELSE /\ s # ""
         /\ (charAt(p, 0) = "?" \/ charAt(p, 0) = charAt(s, 0))
         /\ GlobSegment(slice(s, 1), slice(p, 1))

IsDotSegment(s) == s # "" /\ charAt(s, 0) = "."

SegmentMatches(s, p) ==
    /\ IsDotSegment(s) => IsDotSegment(p)
    /\ GlobSegment(s, p)

\* minimatch: segment lists; "**" spans any number of segments, none hidden.
RECURSIVE MatchParts(_, _)
MatchParts(f, p) ==
    IF p = <<>> THEN f = <<>>
    ELSE IF Head(p) = "**"
         THEN IF Tail(p) = <<>>
              THEN f # <<>> /\ \A i \in 1..Len(f) : ~IsDotSegment(f[i])
              ELSE \/ MatchParts(f, Tail(p))
                   \/ f # <<>> /\ ~IsDotSegment(Head(f)) /\ MatchParts(Tail(f), p)
    ELSE f # <<>> /\ SegmentMatches(Head(f), Head(p)) /\ MatchParts(Tail(f), Tail(p))

minimatch(filename, pattern) ==
    IF pattern = "" THEN filename = ""
    ELSE MatchParts(split(filename, "/"), split(pattern, "/"))

\* path2number: the thrown Error is the record [ok |-> FALSE, ...].
\* The part of the name that holds the number: after the first dash, else the
\* parent directory's name for index.md, else the name itself.
NumberPart(parsed, dash) ==
    IF dash >= 0 THEN slice(parsed.name, dash + 1)
    ELSE IF parsed.base = "index.md" THEN PathParse(parsed.dir).base
    ELSE parsed.name

\* const num = Number(rest); if (Number.isNaN(num)) throw ...; return num
NumberOrThrow(name, num) ==
    IF num = NaN
    THEN [ok |-> FALSE, num |-> NaN,
          message |-> "file name \"" \o name \o "\" not in correct format"]
    ELSE [ok |-> TRUE, num |-> num, message |-> ""]

ParsedToNumber(parsed) ==
    NumberOrThrow(parsed.name, Number(NumberPart(parsed, indexOf(parsed.name, "-"))))

path2number(input) == ParsedToNumber(PathParse(input))

-----------------------------------------------------------------------------
(* Builds of main() and what tells them apart *)

Versions == {"lib", "legacy_ts", "legacy_js", "throttled", "main_ts"}

\* AcceptsEvent without the event test: every trigger goes on to the fetch.
AcceptsEventAny(v, eventName) == TRUE

\* lib and legacy_ts test eventName !== "pull_request"; the later builds also
\* accept pull_request_target.
AcceptsEvent(v, eventName) ==
    IF v \in {"lib", "legacy_ts"}
    THEN eventName = "pull_request"
    ELSE eventName \in {"pull_request", "pull_request_target"}

\* Builds that page through pulls.listFiles themselves; the others call
\* octokit.paginate.
ManualPaging(v) == v \in {"lib", "legacy_ts", "legacy_js"}

\* Builds whose client carries the throttling plugin.
UsesThrottle(v) == v \in {"throttled", "main_ts"}

\* Builds that call issues.createComment after core.setFailed.
PostsComment(v) == v \in {"legacy_ts", "legacy_js"}

-----------------------------------------------------------------------------
(* Values *)

NoError == [thrown |-> FALSE, isError |-> FALSE, message |-> ""]

Error(msg) == [thrown |-> TRUE, isError |-> TRUE, message |-> msg]

\* What an external call may reject with: an Error, or a value that is none.
ThrownValues ==
    {Error("request failed"),
     [thrown |-> TRUE, isError |-> FALSE, message |-> "not an Error object"]}

Unset == "<unset>"

EmptyConfig ==
    [deny |-> <<>>, warn |-> <<>>, allow |-> <<>>,
     default_lints |-> Unset, default_modifiers |-> Unset]

Placeholder == "<failed to render diagnostic, this is a bug in eipw>"

\* An annotation without properties (core.warning(msg), core.notice(msg)).
PlainAnnotation(kind, message) ==
    [kind |-> kind, message |-> message, title |-> Unset,
     startLine |-> Unset, file |-> Unset]

\* const include = includeText.split("\n"), with the default pattern.
IncludePatterns(includeText) ==
    split(IF includeText = "" THEN "EIPS/**" ELSE includeText, "\n")

\* The loop over uncheckedText.split(","): numbers in main_ts, legacy file
\* names in legacy_js and throttled, nothing in the builds without the input.
BuildUnchecked(v, uncheckedText) ==
    LET items == split(uncheckedText, ",")
    IN  IF v = "main_ts"
        THEN [i \in 1..Len(items) |-> Number(trim(items[i]))]
        ELSE IF v \in {"legacy_js", "throttled"}
             THEN [i \in 1..Len(items) |-> "eip-" \o trim(items[i]) \o ".md"]
        ELSE <<>>

\* The body of the loop over the fetched entries, for one entry.
Skip == [act |-> "skip", path |-> "", message |-> ""]

Push(path) == [act |-> "push", path |-> path, message |-> ""]

\* SelectNumbered without the test against the exclusion list.
SelectNumberedIgnoringUnchecked(filename, number, unch, wd) ==
    IF ~number.ok
    THEN [act |-> "throw", path |-> "", message |-> number.message]
    ELSE Push(PathJoin(wd, filename))

\* SelectNumbered with an unparseable file name skipped instead of thrown.
SelectNumberedSkippingUnparsed(filename, number, unch, wd) ==
    IF ~number.ok THEN Skip
    ELSE IF \E i \in 1..Len(unch) : StrictEquals(number.num, unch[i])
         THEN Skip
    ELSE Push(PathJoin(wd, filename))

\* main_ts, from const number = path2number(filename) to files.push(...).
SelectNumbered(filename, number, unch, wd) ==
    IF ~number.ok
    THEN [act |-> "throw", path |-> "", message |-> number.message]
    ELSE IF \E i \in 1..Len(unch) : StrictEquals(number.num, unch[i])
         THEN Skip
    ELSE Push(PathJoin(wd, filename))

SelectEntry(v, entry, incl, unch, wd) ==
    CASE v = "lib" ->
           IF startsWith(entry.filename, "EIPS/") THEN Push(entry.filename) ELSE Skip
      [] v = "legacy_ts" ->
           IF startsWith(entry.filename, "EIPS/") /\ entry.status # "removed"
           THEN Push(entry.filename) ELSE Skip
      [] v \in {"legacy_js", "throttled"} ->
           IF entry.status = "removed" THEN Skip
           ELSE IF ~startsWith(entry.filename, "EIPS/") THEN Skip
           ELSE IF \E i \in 1..Len(unch) : endsWith(entry.filename, unch[i]) THEN Skip
           ELSE Push(entry.filename)
      [] v = "main_ts" ->
           IF entry.status = "removed" THEN Skip
           ELSE IF ~\E i \in 1..Len(incl) : minimatch(entry.filename, incl[i]) THEN Skip
           ELSE SelectNumbered(entry.filename, path2number(entry.filename), unch, wd)

\* for (let entry of fetched): the paths pushed, the entries visited, and the
\* Error that ended the loop early, if any.
\* The effect of one entry's outcome on the loop state.
Selected(acc, entry, r) ==
    [files |-> IF r.act = "push" THEN Append(acc.files, r.path) ELSE acc.files,
     seen  |-> Append(acc.seen, entry),
     error |-> IF r.act = "throw" THEN Error(r.message) ELSE acc.error]

RECURSIVE SelectLoop(_, _, _, _, _, _)
SelectLoop(v, entries, acc, incl, unch, wd) ==
    IF entries = <<>> \/ acc.error.thrown THEN acc
    ELSE SelectLoop(v, Tail(entries),
                    Selected(acc, Head(entries),
                             SelectEntry(v, Head(entries), incl, unch, wd)),
                    incl, unch, wd)

\* .split(",").filter((e) => e)
CheckList(text) == SelectSeq(split(text, ","), LAMBDA e : e # "")

\* onRateLimit with the test retryCount <= 1.
onRateLimitBelowTwo(count) == count <= 1

\* The retry decision of throttle.onRateLimit.
onRateLimit(count) == count <= 2

\* throttle.onSecondaryRateLimit returns nothing: no retry.
onSecondaryRateLimit(count) == FALSE

\* eipw.format, which may raise.
Format(snippet) == "[" \o snippet.level \o "] " \o snippet.title

\* Formatted without the placeholder: an empty title is displayed as it is.
FormattedTitleOnly(snippet) ==
    IF snippet.renders THEN Format(snippet) ELSE snippet.title

\* The try/catch around eipw.format.
Formatted(snippet) ==
    IF snippet.renders THEN Format(snippet)
    ELSE IF snippet.title # "" THEN snippet.title
    ELSE Placeholder

\* SeverityClass with Info moved to the Warning arm.
SeverityClassInfoAsWarning(level) ==
    CASE level \in {"Help", "Note"} -> "notice"
      [] level \in {"Info", "Warning"} -> "warning"
      [] OTHER -> "error"

\* The arm of switch (snippet.level) a level takes.
SeverityClass(level) ==
    CASE level \in {"Help", "Note", "Info"} -> "notice"
      [] level = "Warning" -> "warning"
      [] OTHER -> "error"

\* SetsHasErrors without the default arm: unrecognized levels pass.
SetsHasErrorsOnErrorOnly(level) == level = "Error"

\* Only the Error/default arm assigns hasErrors.
SetsHasErrors(level) == SeverityClass(level) = "error"

\* The core.notice / core.warning / core.error call made for one diagnostic.
Annotate(snippet) ==
    [kind      |-> SeverityClass(snippet.level),
     message   |-> Formatted(snippet),
     title     |-> snippet.title,
     startLine |-> IF Len(snippet.snippets) > 0
                   THEN snippet.snippets[1].line_start ELSE "null",
     file      |-> IF Len(snippet.snippets) > 0
                   THEN snippet.snippets[1].origin ELSE "null"]

\* CatchMessage without the instanceof test.
CatchMessageUnchecked(error) == error.message

\* The catch clause: msg = "failed" unless error instanceof Error.
CatchMessage(error) == IF error.isError THEN error.message ELSE "failed"

\* pulls.listFiles on the hosting side: page p (from 1) of the change list.
PageOf(changes, size, p) ==
    SubSeq(changes, (p - 1) * size + 1,
           IF p * size < Len(changes) THEN p * size ELSE Len(changes))

\* LoopContinues as while (true): the loop has no exit.
LoopContinuesAlways(entries) == TRUE

\* LoopContinues stopping at the first page that is not full.
LoopContinuesOnFullPage(entries) == Len(entries) > 1

\* while (fetched.length > 0)
LoopContinues(entries) == Len(entries) > 0

-----------------------------------------------------------------------------
(* Bounds and input domains *)

\* Longest change list of the selection runs.
MaxFiles == 2

\* Longest diagnostic list of the reporting runs.
MaxDiags == 2

\* The last page number the model follows: one more than the longest change
\* list needs (one page per entry, then the empty page). A run that asks for a
\* later page leaves the model (pc = "beyond").
MaxPage == MaxFiles + 2

PageSizes == {1, 2}

\* response.status values other than 200 that reach the status test.
OtherStatuses == {204, 304}

Events == {"pull_request", "pull_request_target", "push"}

DefaultEnv ==
    [eventName |-> "pull_request", token |-> "ghs_token",
     workingDirectory |-> "", includeText |-> "", uncheckedText |-> "",
     denyChecks |-> "", warnChecks |-> "", allowChecks |-> "",
     optionsFile |-> ""]

TriggerEnvs ==
    {[DefaultEnv EXCEPT !.eventName = e, !.token = t] :
        e \in Events, t \in {"", "ghs_token"}}

SelectionEnvs ==
    {[DefaultEnv EXCEPT !.workingDirectory = w, !.includeText = i,
                        !.uncheckedText = u] :
        w \in {"", "repo"},
        i \in {"", "EIPS/*.md", "ERCS/**\nEIPS/**"},
        u \in {"", "1", "2, 1", "eip-1.md"}}

NamingEnvs ==
    {[DefaultEnv EXCEPT !.uncheckedText = u] : u \in {"", "5", "eip-5.md"}}

ConfigEnvs ==
    {[DefaultEnv EXCEPT !.denyChecks = d, !.warnChecks = w, !.allowChecks = a,
                        !.optionsFile = o, !.uncheckedText = u] :
        d \in {"", "markdown-refs,,preamble-author"},
        w \in {"", "markdown-rel-links"},
        a \in {"", ","},
        o \in {"", "eipw.toml"},
        u \in {"", "1"}}

NoOptions == [outcome |-> "parsed", keys |-> {}]

OptionsDisks ==
    {[outcome |-> "unreadable", keys |-> {}],
     [outcome |-> "unparseable", keys |-> {}]}
    \cup {[outcome |-> "parsed", keys |-> k] :
            k \in SUBSET {"lints", "modifiers", "title"}}

\* Values of options.request.retryCount handed to the throttle callbacks.
RetryCounts == 0..5

Statuses == {"modified", "removed"}

CoreFiles ==
    {"EIPS/eip-1.md", "EIPS/00002/index.md", "README.md", "EIPS/notanumber.md"}

NamingFiles ==
    CoreFiles \cup {"EIPS/3.md", "EIPS/eip-0.md", "EIPS/eip-draft-5.md",
                    "EIPS/eip-5.md", "ERCS/erc-1.md", "EIPS/eip-.md",
                    "EIPS/01234.md", "EIPS/01234/index.md", "EIPS/eip-1234.md",
                    "EIPS/eip-x/index.md"}

Entries(names) == {[filename |-> f, status |-> st] : f \in names, st \in Statuses}

\* Change lists of at most n entries; the hosting API lists a path once.
ChangeLists(names, n) ==
    UNION {{c \in [1..k -> Entries(names)] :
              \A i, j \in 1..k : i # j => c[i].filename # c[j].filename} :
           k \in 0..n}

OneChange == <<[filename |-> "EIPS/eip-1.md", status |-> "modified"]>>

Excerpt == [line_start |-> "7", origin |-> "EIPS/eip-1.md"]

Levels == {"Help", "Note", "Info", "Warning", "Error", "Unknown", "undefined"}

\* Diagnostics: every level rendered; some levels with a rendering fault, with
\* and without a title; one with a source excerpt.
Diagnostics ==
    {[level |-> l, title |-> "T", renders |-> TRUE, snippets |-> <<>>] : l \in Levels}
    \cup {[level |-> l, title |-> t, renders |-> FALSE, snippets |-> <<>>] :
            l \in {"Info", "Warning", "Error", "Unknown"}, t \in {"", "T"}}
    \cup {[level |-> "Error", title |-> "E", renders |-> TRUE,
           snippets |-> <<Excerpt>>]}

DiagnosticLists(n) == UNION {[1..k -> Diagnostics] : k \in 0..n}

FewDiagnosticLists ==
    {<<>>,
     <<[level |-> "Warning", title |-> "W", renders |-> TRUE, snippets |-> <<>>]>>,
     <<[level |-> "Note", title |-> "N", renders |-> TRUE, snippets |-> <<>>],
       [level |-> "Error", title |-> "E", renders |-> TRUE, snippets |-> <<Excerpt>>]>>}

-----------------------------------------------------------------------------
(* Initial states: main() about to run, in one of five families of runs *)

envVars == <<ver, env, srvChanges, perPage, optionsDisk, lintOutput>>

TriggerRuns ==
    /\ env \in TriggerEnvs
    /\ srvChanges = OneChange
    /\ perPage = 1
    /\ optionsDisk = NoOptions
    /\ lintOutput \in FewDiagnosticLists

SelectionRuns ==
    /\ env \in SelectionEnvs
    /\ srvChanges \in ChangeLists(CoreFiles, MaxFiles)
    /\ perPage \in PageSizes
    /\ optionsDisk = NoOptions
    /\ lintOutput = <<>>

NamingRuns ==
    /\ env \in NamingEnvs
    /\ srvChanges \in ChangeLists(NamingFiles, 1)
    /\ perPage = 1
    /\ optionsDisk = NoOptions
    /\ lintOutput = <<>>

ConfigRuns ==
    /\ env \in ConfigEnvs
    /\ srvChanges = OneChange
    /\ perPage = 1
    /\ optionsDisk \in OptionsDisks
    /\ lintOutput \in FewDiagnosticLists

ReportRuns ==
    /\ env = DefaultEnv
    /\ srvChanges = OneChange
    /\ perPage = 1
    /\ optionsDisk = NoOptions
    /\ lintOutput \in DiagnosticLists(MaxDiags)

\* The locals of main() before its first statement, and the empty logs.
InitialMain ==
    /\ pc = "start"
    /\ include = <<>>
    /\ unchecked = <<>>
    /\ page = 0
    /\ retryCount = 0
    /\ status = 0
    /\ fetched = <<>>
    /\ files = <<>>
    /\ levelConfig = EmptyConfig
    /\ result = <<>>
    /\ linted = FALSE
    /\ idx = 0
    /\ hasErrors = FALSE
    /\ caught = NoError
    /\ pageReqs = <<>>
    /\ processed = <<>>
    /\ lintCalls = <<>>
    /\ annotations = <<>>
    /\ failures = <<>>
    /\ comments = <<>>

Init ==
    /\ ver \in Versions
    /\ TriggerRuns \/ SelectionRuns \/ NamingRuns \/ ConfigRuns \/ ReportRuns
    /\ InitialMain

-----------------------------------------------------------------------------
(* main(): the code between two awaits is one step *)

\* catch (error) { console.log(error); ...; core.setFailed(msg); }
Catch(error) ==
    /\ caught' = error
    /\ failures' = Append(failures, CatchMessage(error))
    /\ pc' = "done"

\* NextPage without the increment.
NextPageStuck(p) == p

\* NextPage skipping every other page.
NextPageByTwo(p) == p + 2

\* page += 1
NextPage(p) == p + 1

\* await eipw.lint(files) / eipw.lint(files, levelConfig): the call is made.
CallLint(paths, config) ==
    /\ lintCalls' = Append(lintCalls, [files |-> paths,
                                        withConfig |-> (ver = "main_ts"),
                                        config |-> config])
    /\ pc' = "awaitLint"

\* The three comma-separated check lists of main_ts.
InputConfig ==
    [EmptyConfig EXCEPT !.deny = CheckList(env.denyChecks),
                        !.warn = CheckList(env.warnChecks),
                        !.allow = CheckList(env.allowChecks)]

\* AfterSelection without the empty-list return: the linter is always called.
AfterSelectionAlwaysLints(paths) ==
    /\ CallLint(paths, EmptyConfig)
    /\ UNCHANGED <<annotations, levelConfig>>

\* From the end of the selection loop to the next await: the empty-list
\* return, the level configuration (main_ts), the linter call.
AfterSelection(paths) ==
    IF Len(paths) = 0
    THEN /\ annotations' = Append(annotations,
                                  PlainAnnotation("notice", "no files to check"))
         /\ pc' = "done"
         /\ UNCHANGED <<levelConfig, lintCalls>>
    ELSE IF ver = "main_ts"
         THEN /\ levelConfig' = InputConfig
              /\ IF env.optionsFile # ""
                 THEN pc' = "awaitOptions" /\ UNCHANGED lintCalls
                 ELSE CallLint(paths, InputConfig)
              /\ UNCHANGED annotations
    ELSE /\ CallLint(paths, EmptyConfig)
         /\ UNCHANGED <<annotations, levelConfig>>

\* From the top of main() to the first await: the client is built (which
\* throws without a token), the event is tested, the exclusion list is
\* built, the first request goes out.
Start ==
    /\ pc = "start"
    /\ include' = IF ver = "main_ts" THEN IncludePatterns(env.includeText) ELSE include
    /\ IF env.token = ""
       THEN /\ Catch(Error("Parameter token or opts.auth is required"))
            /\ UNCHANGED <<unchecked, page, pageReqs, annotations>>
       ELSE IF ~AcceptsEvent(ver, env.eventName)
            THEN /\ annotations' =
                       Append(annotations,
                              PlainAnnotation("warning",
                                  "eipw-action should only be configured to run on pull requests"))
                 /\ pc' = "done"
                 /\ UNCHANGED <<unchecked, page, pageReqs, caught, failures>>
       ELSE /\ unchecked' = BuildUnchecked(ver, env.uncheckedText)
            /\ IF ManualPaging(ver)
               THEN /\ page' = 1
                    /\ pageReqs' = Append(pageReqs, 1)
                    /\ pc' = "awaitPage"
               ELSE /\ pc' = "awaitPaginate"
                    /\ UNCHANGED <<page, pageReqs>>
            /\ UNCHANGED <<annotations, caught, failures>>
    /\ UNCHANGED <<envVars, retryCount, status, fetched, files, levelConfig,
                   result, linted, idx, hasErrors, processed, lintCalls, comments>>

\* pulls.listFiles answers 200 with the entries data: they are filtered (sel is
\* the outcome), the page counter advances, and either the next page is
\* requested or the loop ends.
PageProcessed(data, sel) ==
    /\ status' = 200
    /\ fetched' = data
    /\ processed' = processed \o sel.seen
    /\ files' = sel.files
    /\ page' = NextPage(page)
    /\ IF LoopContinues(data)
       THEN /\ IF NextPage(page) <= MaxPage
               THEN pageReqs' = Append(pageReqs, NextPage(page)) /\ pc' = "awaitPage"
               ELSE pc' = "beyond" /\ UNCHANGED pageReqs
            /\ UNCHANGED <<annotations, levelConfig, lintCalls>>
       ELSE /\ AfterSelection(sel.files)
            /\ UNCHANGED pageReqs

ListFilesReturns ==
    /\ pc = "awaitPage"
    /\ PageProcessed(PageOf(srvChanges, perPage, page),
                     SelectLoop(ver, PageOf(srvChanges, perPage, page),
                                [files |-> files, seen |-> <<>>, error |-> NoError],
                                include, unchecked, ""))
    /\ UNCHANGED <<envVars, include, unchecked, retryCount, result, linted, idx,
                   hasErrors, caught, failures, comments>>

\* ListFilesOtherStatus without the status test: the loop goes on.
ListFilesOtherStatusIgnored ==
    /\ pc = "awaitPage"
    /\ \E s \in OtherStatuses : status' = s
    /\ NextPage(page) <= MaxPage
    /\ page' = NextPage(page)
    /\ pageReqs' = Append(pageReqs, NextPage(page))
    /\ UNCHANGED <<envVars, pc, include, unchecked, retryCount, fetched, files,
                   levelConfig, result, linted, idx, hasErrors, caught, failures,
                   processed, lintCalls, annotations, comments>>

\* pulls.listFiles answers with another status: setFailed and return.
ListFilesOtherStatus ==
    /\ pc = "awaitPage"
    /\ \E s \in OtherStatuses :
          /\ status' = s
          /\ failures' = Append(failures, "pulls listFiles " \o ToString(s))
    /\ pc' = "done"
    /\ UNCHANGED <<envVars, include, unchecked, page, retryCount, fetched, files,
                   levelConfig, result, linted, idx, hasErrors, caught, pageReqs,
                   processed, lintCalls, annotations, comments>>

\* pulls.listFiles rejects.
ListFilesRaises ==
    /\ pc = "awaitPage"
    /\ \E e \in ThrownValues : Catch(e)
    /\ UNCHANGED <<envVars, include, unchecked, page, retryCount, status, fetched,
                   files, levelConfig, result, linted, idx, hasErrors, pageReqs,
                   processed, lintCalls, annotations, comments>>

\* octokit.paginate resolves with the whole change list: the selection loop
\* runs (path2number may throw in main_ts), then the code up to the next await.
\* sel is the outcome of the loop.
ListProcessed(sel) ==
    /\ fetched' = srvChanges
    /\ processed' = processed \o sel.seen
    /\ files' = sel.files
    /\ IF sel.error.thrown
       THEN /\ Catch(sel.error)
            /\ UNCHANGED <<annotations, levelConfig, lintCalls>>
       ELSE /\ AfterSelection(sel.files)
            /\ UNCHANGED <<caught, failures>>

PaginateReturns ==
    /\ pc = "awaitPaginate"
    /\ ListProcessed(SelectLoop(ver, srvChanges,
                                [files |-> <<>>, seen |-> <<>>, error |-> NoError],
                                include, unchecked, env.workingDirectory))
    /\ UNCHANGED <<envVars, include, unchecked, page, retryCount, status, result,
                   linted, idx, hasErrors, pageReqs, comments>>

\* octokit.paginate rejects.
PaginateRaises ==
    /\ pc = "awaitPaginate"
    /\ \E e \in ThrownValues : Catch(e)
    /\ UNCHANGED <<envVars, include, unchecked, page, retryCount, status, fetched,
                   files, levelConfig, result, linted, idx, hasErrors, pageReqs,
                   processed, lintCalls, annotations, comments>>

\* The request in flight meets the primary rate limit: the plugin asks
\* onRateLimit, and retries with retryCount + 1 or lets the error through.
PrimaryRateLimit ==
    /\ pc = "awaitPaginate"
    /\ UsesThrottle(ver)
    /\ IF onRateLimit(retryCount)
       THEN /\ retryCount' = retryCount + 1
            /\ UNCHANGED <<pc, caught, failures>>
       ELSE /\ Catch(Error("API rate limit exceeded"))
            /\ UNCHANGED retryCount
    /\ UNCHANGED <<envVars, include, unchecked, page, status, fetched, files,
                   levelConfig, result, linted, idx, hasErrors, pageReqs,
                   processed, lintCalls, annotations, comments>>

\* The request in flight meets the secondary rate limit.
SecondaryRateLimit ==
    /\ pc = "awaitPaginate"
    /\ UsesThrottle(ver)
    /\ IF onSecondaryRateLimit(retryCount)
       THEN /\ retryCount' = retryCount + 1
            /\ UNCHANGED <<pc, caught, failures>>
       ELSE /\ Catch(Error("You have exceeded a secondary rate limit"))
            /\ UNCHANGED retryCount
    /\ UNCHANGED <<envVars, include, unchecked, page, status, fetched, files,
                   levelConfig, result, linted, idx, hasErrors, pageReqs,
                   processed, lintCalls, annotations, comments>>

\* OptionsChanged as if every options file changed something.
OptionsChangedAlways(keys) == TRUE

\* let changed = false; ... changed = true: the parsed file has one of the two
\* recognized keys.
OptionsChanged(keys) == "lints" \in keys \/ "modifiers" \in keys

\* fs.readFile settles: the text is parsed, lints / modifiers are copied,
\* and the linter is called, unless one of the three steps throws.
OptionsFileRead ==
    /\ pc = "awaitOptions"
    /\ CASE optionsDisk.outcome = "unreadable" ->
              /\ Catch(Error("ENOENT: no such file or directory"))
              /\ UNCHANGED <<levelConfig, lintCalls>>
         [] optionsDisk.outcome = "unparseable" ->
              /\ Catch(Error("Invalid TOML document"))
              /\ UNCHANGED <<levelConfig, lintCalls>>
         [] optionsDisk.outcome = "parsed" ->
              LET hasLints     == "lints" \in optionsDisk.keys
                  hasModifiers == "modifiers" \in optionsDisk.keys
                  config == [levelConfig EXCEPT
                               !.default_lints = IF hasLints THEN "toml.lints" ELSE @,
                               !.default_modifiers =
                                   IF hasModifiers THEN "toml.modifiers" ELSE @]
              IN  IF ~OptionsChanged(optionsDisk.keys)
                  THEN /\ Catch(Error("options-file must set at least one of lints or modifiers"))
                       /\ UNCHANGED <<levelConfig, lintCalls>>
                  ELSE /\ levelConfig' = config
                       /\ CallLint(files, config)
                       /\ UNCHANGED <<caught, failures>>
    /\ UNCHANGED <<envVars, include, unchecked, page, retryCount, status, fetched,
                   files, result, linted, idx, hasErrors, pageReqs, processed,
                   annotations, comments>>

\* eipw.lint resolves; let hasErrors = false.
LintReturns ==
    /\ pc = "awaitLint"
    /\ result' = lintOutput
    /\ linted' = TRUE
    /\ hasErrors' = FALSE
    /\ idx' = 0
    /\ pc' = "report"
    /\ UNCHANGED <<envVars, include, unchecked, page, retryCount, status, fetched,
                   files, levelConfig, caught, pageReqs, processed, lintCalls,
                   annotations, failures, comments>>

\* eipw.lint rejects.
LintRaises ==
    /\ pc = "awaitLint"
    /\ \E e \in ThrownValues : Catch(e)
    /\ UNCHANGED <<envVars, include, unchecked, page, retryCount, status, fetched,
                   files, levelConfig, result, linted, idx, hasErrors, pageReqs,
                   processed, lintCalls, annotations, comments>>

\* ReportDiagnostic as it would be if equal annotations were emitted once.
ReportDiagnosticDeduplicated ==
    /\ pc = "report"
    /\ idx < Len(result)
    /\ LET snippet == result[idx + 1]
       IN  /\ annotations' =
                 (IF \E k \in 1..Len(annotations) : annotations[k] = Annotate(snippet)
                  THEN annotations
                  ELSE Append(annotations, Annotate(snippet)))
           /\ hasErrors' = (hasErrors \/ SetsHasErrors(snippet.level))
    /\ idx' = idx + 1
    /\ UNCHANGED <<envVars, pc, include, unchecked, page, retryCount, status,
                   fetched, files, levelConfig, result, linted, caught, pageReqs,
                   processed, lintCalls, failures, comments>>

\* ReportDiagnostic assigning hasErrors in every arm: the last diagnostic wins.
ReportDiagnosticLastWins ==
    /\ pc = "report"
    /\ idx < Len(result)
    /\ LET snippet == result[idx + 1]
       IN  /\ annotations' = Append(annotations, Annotate(snippet))
           /\ hasErrors' = SetsHasErrors(snippet.level)
    /\ idx' = idx + 1
    /\ UNCHANGED <<envVars, pc, include, unchecked, page, retryCount, status,
                   fetched, files, levelConfig, result, linted, caught, pageReqs,
                   processed, lintCalls, failures, comments>>

\* One iteration of for (let snippet of result).
ReportDiagnostic ==
    /\ pc = "report"
    /\ idx < Len(result)
    /\ LET snippet == result[idx + 1]
       IN  /\ annotations' = Append(annotations, Annotate(snippet))
           /\ hasErrors' = (hasErrors \/ SetsHasErrors(snippet.level))
    /\ idx' = idx + 1
    /\ UNCHANGED <<envVars, pc, include, unchecked, page, retryCount, status,
                   fetched, files, levelConfig, result, linted, caught, pageReqs,
                   processed, lintCalls, failures, comments>>

\* Finish taken as soon as hasErrors is set, whatever is left to report.
FinishAtFirstError ==
    /\ pc = "report"
    /\ hasErrors \/ idx = Len(result)
    /\ IF hasErrors
       THEN /\ failures' = Append(failures, "validation found errors :(")
            /\ pc' = IF PostsComment(ver) THEN "comment" ELSE "done"
       ELSE /\ pc' = "done"
            /\ UNCHANGED failures
    /\ UNCHANGED <<envVars, include, unchecked, page, retryCount, status, fetched,
                   files, levelConfig, result, linted, idx, hasErrors, caught,
                   pageReqs, processed, lintCalls, annotations, comments>>

\* if (hasErrors) core.setFailed("validation found errors :(")
Finish ==
    /\ pc = "report"
    /\ idx = Len(result)
    /\ IF hasErrors
       THEN /\ failures' = Append(failures, "validation found errors :(")
            /\ pc' = IF PostsComment(ver) THEN "comment" ELSE "done"
       ELSE /\ pc' = "done"
            /\ UNCHANGED failures
    /\ UNCHANGED <<envVars, include, unchecked, page, retryCount, status, fetched,
                   files, levelConfig, result, linted, idx, hasErrors, caught,
                   pageReqs, processed, lintCalls, annotations, comments>>

\* octokit.rest.issues.createComment({...}), not awaited.
PostComment ==
    /\ pc = "comment"
    /\ comments' = Append(comments, "contains errors, see the Run Summary")
    /\ pc' = "done"
    /\ UNCHANGED <<envVars, include, unchecked, page, retryCount, status, fetched,
                   files, levelConfig, result, linted, idx, hasErrors, caught,
                   pageReqs, processed, lintCalls, annotations, failures>>

Next ==
    \/ Start
    \/ ListFilesRaises
    \/ ListFilesOtherStatus
    \/ ListFilesReturns
    \/ PaginateRaises
    \/ PrimaryRateLimit
    \/ SecondaryRateLimit
    \/ PaginateReturns
    \/ OptionsFileRead
    \/ LintRaises
    \/ LintReturns
    \/ ReportDiagnostic
    \/ Finish
    \/ PostComment

Spec == Init /\ [][Next]_vars

\* The runs followed to their end: both page sizes over a three-entry change
\* list, with and without an options file.
TerminationRuns ==
    /\ env \in {DefaultEnv,
                [DefaultEnv EXCEPT !.optionsFile = "eipw.toml"],
                [DefaultEnv EXCEPT !.eventName = "push"]}
    /\ srvChanges \in {<<>>, OneChange,
                       <<[filename |-> "EIPS/eip-1.md", status |-> "modified"],
                         [filename |-> "README.md", status |-> "modified"],
                         [filename |-> "EIPS/00002/index.md", status |-> "removed"]>>}
    /\ perPage \in PageSizes
    /\ optionsDisk \in {[outcome |-> "parsed", keys |-> {"lints"}]}
    /\ lintOutput \in FewDiagnosticLists

TerminationInit == ver \in Versions /\ TerminationRuns /\ InitialMain

\* Every external call settles and the event loop runs main() on: a step
\* that can be taken is eventually taken.
FairSpec == TerminationInit /\ [][Next]_vars /\ WF_vars(Next)

-----------------------------------------------------------------------------
(* Properties *)

KnownBenign == {"Help", "Note", "Info", "Warning"}

\* The code after the fetch loop has run: the linter was called or the
\* empty-list notice was emitted.
LoopExited ==
    \/ lintCalls # <<>>
    \/ \E k \in 1..Len(annotations) : annotations[k].message = "no files to check"

\* C1: once the linter has returned, the annotations emitted are exactly one
\* per diagnostic reported so far, the k-th annotation carrying the title and
\* excerpt of the k-th diagnostic and one of the three severity classes; when
\* the run is over every diagnostic has its annotation.
C1_OneAnnotationPerDiagnostic ==
    linted =>
        /\ Len(annotations) = idx
        /\ idx <= Len(result)
        /\ pc \in {"comment", "done"} => idx = Len(result)
        /\ \A k \in 1..idx :
              /\ annotations[k].kind \in {"notice", "warning", "error"}
              /\ annotations[k].title = result[k].title
              /\ annotations[k].message \in
                    {Format(result[k]), result[k].title, Placeholder}
              /\ annotations[k].file =
                    (IF result[k].snippets = <<>> THEN "null"
                     ELSE result[k].snippets[1].origin)

\* C1 witness: two equal diagnostics, each with its own annotation.
C1_Witness ==
    /\ pc = "done"
    /\ linted
    /\ Len(result) = 2
    /\ result[1] = result[2]
    /\ Len(annotations) = 2

\* C2: a run in which the linter returned and nothing was thrown ends in Fail
\* exactly when some diagnostic has a severity other than Help, Note, Info or
\* Warning; in main_ts every finished run that selected a file and threw
\* nothing is such a run.
C2_FailIffErrorDiagnostic ==
    /\ (pc = "done" /\ linted /\ ~caught.thrown) =>
          ((failures # <<>>) <=>
              (\E k \in 1..Len(result) : result[k].level \notin KnownBenign))
    /\ (ver = "main_ts" /\ pc = "done" /\ ~caught.thrown /\ files # <<>>) => linted

\* C2 witness: a run that fails on unrecognized severities alone.
C2_Witness ==
    /\ pc = "done"
    /\ linted
    /\ ~caught.thrown
    /\ failures # <<>>
    /\ Len(result) = 2
    /\ result[1].level = "Unknown"
    /\ result[2].level = "Warning"

\* C3: Help, Note and Info are reported as a notice, Warning as a warning,
\* every other level as an error, and hasErrors is set exactly when an error
\* annotation has been emitted.
C3_SeverityDispatch ==
    linted =>
        /\ \A k \in 1..idx :
              /\ result[k].level \in {"Help", "Note", "Info"}
                    => annotations[k].kind = "notice"
              /\ result[k].level = "Warning" => annotations[k].kind = "warning"
              /\ result[k].level \notin KnownBenign => annotations[k].kind = "error"
        /\ hasErrors <=> (\E k \in 1..idx : annotations[k].kind = "error")

\* C3 witness: a missing level reported as an error next to a Help notice.
C3_Witness ==
    /\ linted
    /\ idx = 2
    /\ result[1].level = "undefined"
    /\ annotations[1].kind = "error"
    /\ result[2].level = "Help"
    /\ annotations[2].kind = "notice"
    /\ hasErrors

\* C4: a thrown value ends the run in Fail with one setFailed message, the
\* Error's message or "failed" for a value that is no Error.
C4_ExceptionsBecomeFail ==
    caught.thrown =>
        /\ pc = "done"
        /\ failures = <<IF caught.isError THEN caught.message ELSE "failed">>

\* C4 witness: the linter rejects with a value that is no Error.
C4_Witness ==
    /\ caught.thrown
    /\ ~caught.isError
    /\ lintCalls # <<>>
    /\ failures = <<"failed">>

\* C5: every run reaches its terminal state.
C5_Terminates == <>(pc = "done")

\* C5 witness: a run that ended after three retries of a rate-limited request.
C5_Witness ==
    /\ pc = "done"
    /\ retryCount = 3
    /\ linted

\* C6: a finished run has posted one comment if it failed on lint findings,
\* and none otherwise.
C6_CommentIffLintFail ==
    pc = "done" =>
        Len(comments) = (IF linted /\ hasErrors /\ ~caught.thrown THEN 1 ELSE 0)

\* The selection C7 describes, stated on the change list as a whole.
InScope(entry) ==
    /\ entry.status # "removed"
    /\ \E i \in 1..Len(include) : minimatch(entry.filename, include[i])
    /\ ~\E i \in 1..Len(unchecked) :
           StrictEquals(path2number(entry.filename).num, unchecked[i])

JoinedPaths(entries) ==
    [k \in 1..Len(entries) |-> PathJoin(env.workingDirectory, entries[k].filename)]

\* C7: in main_ts the linter is called at most once, with the joined paths of
\* the changed files that are not removed, match an include pattern and whose
\* number is not in the exclusion list, in API order.
C7_LinterGetsSelection ==
    (ver = "main_ts" /\ lintCalls # <<>>) =>
        /\ Len(lintCalls) = 1
        /\ lintCalls[1].files = JoinedPaths(SelectSeq(srvChanges, InScope))

\* C7 witness: the first file is excluded by its number, the second is passed
\* with the working directory joined on.
C7_Witness ==
    /\ ver = "main_ts"
    /\ env.uncheckedText = "1"
    /\ srvChanges = <<[filename |-> "EIPS/eip-1.md", status |-> "modified"],
                      [filename |-> "EIPS/00002/index.md", status |-> "modified"]>>
    /\ lintCalls # <<>>
    /\ lintCalls[1].files = <<"repo/EIPS/00002/index.md">>

\* The working directory main() joins onto a selected file name.
JoinDirectory == IF ver = "main_ts" THEN env.workingDirectory ELSE ""

\* C8: every selected path is the path of an entry of the change list the
\* run has iterated over, and no path is selected twice.
C8_SelectionSubsetNoDuplicates ==
    /\ \A i \in 1..Len(files) :
          \E k \in 1..Len(processed) :
             /\ processed[k] \in {srvChanges[n] : n \in 1..Len(srvChanges)}
             /\ files[i] = PathJoin(JoinDirectory, processed[k].filename)
    /\ \A i, j \in 1..Len(files) : i # j => files[i] # files[j]

\* C8 witness: two files selected from two pages by legacy_ts.
C8_Witness ==
    /\ ver = "legacy_ts"
    /\ perPage = 1
    /\ Len(pageReqs) = 3
    /\ Len(files) = 2
    /\ lintCalls # <<>>

\* Number of non-empty pages of the change list.
NonEmptyPages == (Len(srvChanges) + perPage - 1) \div perPage

\* C9: in the builds that page by hand, the pages requested are 1, 2, ... in
\* order, the entries iterated over are a prefix of the change list, and once
\* the loop is left they are the whole change list, fetched with one request
\* per non-empty page plus the one that came back empty.
C9_PagesConcatenated ==
    ManualPaging(ver) =>
        /\ \A k \in 1..Len(pageReqs) : pageReqs[k] = k
        /\ Len(processed) <= Len(srvChanges)
        /\ processed = SubSeq(srvChanges, 1, Len(processed))
        /\ LoopExited =>
              /\ processed = srvChanges
              /\ Len(pageReqs) = NonEmptyPages + 1
              /\ fetched = <<>>

\* C9 witness: two non-empty pages and the empty third one.
C9_Witness ==
    /\ ManualPaging(ver)
    /\ LoopExited
    /\ perPage = 1
    /\ Len(srvChanges) = 2
    /\ pageReqs = <<1, 2, 3>>

\* C10: after a page response whose status is not 200 the run is over and
\* failed with the status message; no page was requested after it, the
\* linter was not called and nothing was annotated.
C10_Non200IsFatal ==
    (ManualPaging(ver) /\ status \notin {0, 200}) =>
        /\ pc = "done"
        /\ failures = <<"pulls listFiles " \o ToString(status)>>
        /\ Len(pageReqs) = page
        /\ lintCalls = <<>>
        /\ annotations = <<>>
        /\ ~linted

\* C10 witness: the second page answers 304 after a file was selected from
\* the first.
C10_Witness ==
    /\ status = 304
    /\ Len(pageReqs) = 2
    /\ files # <<>>
    /\ pc = "done"

\* C11: on a primary rate-limit signal the request is retried (retryCount
\* goes up by one, the run stays suspended) exactly when retryCount is at most
\* 2, and otherwise the error reaches the catch clause; on a secondary signal
\* the request is never retried, whatever retryCount is. The callbacks decide
\* the same for every retryCount value.
C11_RetryDecision ==
    [][/\ \A c \in RetryCounts :
             /\ onRateLimit(c) <=> (c \in {0, 1, 2})
             /\ ~onSecondaryRateLimit(c)
       /\ PrimaryRateLimit =>
             IF retryCount <= 2
             THEN retryCount' = retryCount + 1 /\ pc' = pc /\ ~caught'.thrown
             ELSE /\ retryCount' = retryCount
                  /\ pc' = "done"
                  /\ caught' = Error("API rate limit exceeded")
       /\ SecondaryRateLimit =>
             /\ retryCount' = retryCount
             /\ pc' = "done"
             /\ caught' = Error("You have exceeded a secondary rate limit")]_vars

\* C11 witness: the signal arrived at retryCount 3 and the error propagated.
C11_Witness ==
    /\ UsesThrottle(ver)
    /\ retryCount = 3
    /\ caught = Error("API rate limit exceeded")
    /\ failures = <<"API rate limit exceeded">>

\* C12: a request that keeps meeting the primary rate limit is retried at
\* most twice (retryCount counts the retries made of the request in flight),
\* so the third signal ends it.
C12_AtMostTwoRetries == retryCount <= 2

OtherEvent == env.eventName \notin {"pull_request", "pull_request_target"}

WrongEventWarning ==
    PlainAnnotation("warning",
                    "eipw-action should only be configured to run on pull requests")

\* What a run that stopped at the event test has done: one warning, no
\* failure, no page request, no linter call, no comment.
StoppedAtEventTest ==
    /\ pc = "done"
    /\ annotations = <<WrongEventWarning>>
    /\ failures = <<>>
    /\ ~caught.thrown
    /\ pageReqs = <<>>
    /\ fetched = <<>>
    /\ processed = <<>>
    /\ lintCalls = <<>>
    /\ ~linted
    /\ comments = <<>>

\* C13 (amended): when the API client could be built (the token input is not
\* empty) and the trigger event is neither pull_request nor
\* pull_request_target, the run emits one warning and ends in Pass without
\* requesting a page, calling the linter, annotating a diagnostic or posting
\* a comment.
C13_OtherEventPassesWithWarning ==
    (pc # "start" /\ OtherEvent /\ env.token # "") => StoppedAtEventTest

\* C13 witness: a push-triggered run that ended with the warning alone.
C13_Witness ==
    /\ env.eventName = "push"
    /\ env.token # ""
    /\ pc = "done"
    /\ annotations = <<WrongEventWarning>>
    /\ failures = <<>>

\* C13 as stated: every run on another trigger event ends in Pass with one
\* warning.
C13_OtherEventAlwaysPasses ==
    (pc # "start" /\ OtherEvent) => StoppedAtEventTest

NoFilesNotice == PlainAnnotation("notice", "no files to check")

\* C14: a run on an accepted event that ended without a failure and with an
\* empty selection emitted the notice "no files to check"; a run that emitted
\* it is over, emitted nothing else, was not marked failed, did not call the
\* linter and posted nothing; the options file is read and the linter is
\* called only with a non-empty selection.
C14_EmptySelectionPasses ==
    /\ (/\ pc = "done"
        /\ files = <<>>
        /\ AcceptsEvent(ver, env.eventName)
        /\ failures = <<>>) => annotations = <<NoFilesNotice>>
    /\ (\E k \in 1..Len(annotations) : annotations[k] = NoFilesNotice) =>
          /\ pc = "done"
          /\ files = <<>>
          /\ annotations = <<NoFilesNotice>>
          /\ failures = <<>>
          /\ ~caught.thrown
          /\ lintCalls = <<>>
          /\ ~linted
          /\ levelConfig = EmptyConfig
          /\ comments = <<>>
    /\ (pc = "awaitOptions" \/ lintCalls # <<>>) => files # <<>>

\* C14 witness: main_ts with an options file configured and the only changed
\* file excluded: the run ended with the notice.
C14_Witness ==
    /\ ver = "main_ts"
    /\ env.optionsFile # ""
    /\ processed # <<>>
    /\ pc = "done"
    /\ annotations = <<NoFilesNotice>>

\* The file name after the last slash, its stem (without the extension), and
\* the name of the directory that holds it.
BaseName(f) == slice(f, lastIndexOf(f, "/") + 1)

StemOf(b) == IF lastIndexOf(b, ".") <= 0 THEN b ELSE SubSeq(b, 1, lastIndexOf(b, "."))

Stem(f) == StemOf(BaseName(f))

ParentName(f) ==
    IF lastIndexOf(f, "/") <= 0 THEN ""
    ELSE BaseName(SubSeq(f, 1, lastIndexOf(f, "/")))

DashCount(s) == Cardinality({i \in 0..(Len(s) - 1) : charAt(s, i) = "-"})

\* A non-empty run of decimal digits.
Numeric(t) == t # "" /\ \A i \in 0..(Len(t) - 1) : IsDigit(charAt(t, i))

\* The text the first applicable convention designates: what follows the
\* dash of the stem, else the parent directory's name for index.md, else the
\* stem.
ConventionText(f) ==
    IF DashCount(Stem(f)) > 0 THEN slice(Stem(f), indexOf(Stem(f), "-") + 1)
    ELSE IF BaseName(f) = "index.md" THEN ParentName(f)
    ELSE Stem(f)

FollowsConvention(f, r) ==
    IF Numeric(ConventionText(f))
    THEN r.ok /\ r.num = DecimalValue(ConventionText(f), 0)
    ELSE ~r.ok

\* The entries main_ts has handed to path2number so far.
Extracted(entry) ==
    /\ entry.status # "removed"
    /\ \E i \in 1..Len(include) : minimatch(entry.filename, include[i])

\* C15: for every file name with at most one dash in its stem that main_ts
\* hands to path2number, the result is the number designated by the first
\* applicable convention (after the dash; parent directory of index.md; the
\* stem), and an error when that text is not a number.
C15_ThreeConventions ==
    /\ FollowsConvention("EIPS/eip-1234.md", [ok |-> TRUE, num |-> 1234, message |-> ""])
    /\ ver = "main_ts" =>
          \A k \in 1..Len(processed) :
              (Extracted(processed[k]) /\ DashCount(Stem(processed[k].filename)) <= 1) =>
                  FollowsConvention(processed[k].filename,
                                    path2number(processed[k].filename))

AfterLastDash(s) == slice(s, lastIndexOf(s, "-") + 1)

\* C16: for every file name with more than one dash in its stem that main_ts
\* hands to path2number, the identifier is the number after the last dash.
C16_SuffixAfterLastDash ==
    ver = "main_ts" =>
        \A k \in 1..Len(processed) :
            (/\ Extracted(processed[k])
             /\ DashCount(Stem(processed[k].filename)) > 1
             /\ Numeric(AfterLastDash(Stem(processed[k].filename)))) =>
                /\ path2number(processed[k].filename).ok
                /\ path2number(processed[k].filename).num =
                      DecimalValue(AfterLastDash(Stem(processed[k].filename)), 0)

\* An entry that reaches path2number and makes it throw.
Unparseable(entry) == Extracted(entry) /\ ~path2number(entry.filename).ok

MalformedMessage(f) == "file name \"" \o Stem(f) \o "\" not in correct format"

FirstUnparseable(entries) ==
    entries[CHOOSE k \in 1..Len(entries) :
                /\ Unparseable(entries[k])
                /\ \A j \in 1..(k - 1) : ~Unparseable(entries[j])]

NonEmptyItems(text) == SelectSeq(split(text, ","), LAMBDA e : Len(e) > 0)

NoRecognizedKey == optionsDisk.keys \cap {"lints", "modifiers"} = {}

\* The selection loop of main_ts ran to its end and kept a file.
SelectionKeptFiles ==
    /\ processed = srvChanges
    /\ files # <<>>
    /\ \A k \in 1..Len(srvChanges) : ~Unparseable(srvChanges[k])

\* C18: in main_ts the configuration the linter receives has default_lints
\* set iff an options file is supplied and defines lints, default_modifiers
\* set iff it is supplied and defines modifiers, and the deny, warn and allow
\* lists of the inputs without their empty entries; a supplied file that
\* parses and defines neither key ends the run in Fail with the
\* configuration error and without a linter call.
C18_OptionsFileMerge ==
    ver = "main_ts" =>
        /\ lintCalls # <<>> =>
              /\ lintCalls[1].withConfig
              /\ (lintCalls[1].config.default_lints # Unset) <=>
                    (env.optionsFile # "" /\ "lints" \in optionsDisk.keys)
              /\ (lintCalls[1].config.default_modifiers # Unset) <=>
                    (env.optionsFile # "" /\ "modifiers" \in optionsDisk.keys)
              /\ env.optionsFile # "" =>
                    (optionsDisk.outcome = "parsed" /\ ~NoRecognizedKey)
              /\ lintCalls[1].config.deny = NonEmptyItems(env.denyChecks)
              /\ lintCalls[1].config.warn = NonEmptyItems(env.warnChecks)
              /\ lintCalls[1].config.allow = NonEmptyItems(env.allowChecks)
        /\ (/\ env.optionsFile # ""
            /\ optionsDisk.outcome = "parsed"
            /\ NoRecognizedKey
            /\ SelectionKeptFiles
            /\ pc = "done") =>
               /\ failures = <<"options-file must set at least one of lints or modifiers">>
               /\ caught.thrown
               /\ lintCalls = <<>>
               /\ ~linted

\* C18 witness: an options file with modifiers and an unrecognized key; the
\* linter got default_modifiers alone and the deny list without its empty
\* entry.
C18_Witness ==
    /\ ver = "main_ts"
    /\ env.optionsFile # ""
    /\ optionsDisk.keys = {"modifiers", "title"}
    /\ lintCalls # <<>>
    /\ lintCalls[1].config.default_modifiers # Unset
    /\ lintCalls[1].config.default_lints = Unset
    /\ lintCalls[1].config.deny = <<"markdown-refs", "preamble-author">>
    /\ env.allowChecks = ","
    /\ lintCalls[1].config.allow = <<>>

\* The class of annotation a level calls for.
ClassOfLevel(level) ==
    IF level \in {"Help", "Note", "Info"} THEN "notice"
    ELSE IF level = "Warning" THEN "warning"
    ELSE "error"

\* C19: a diagnostic whose rendering raises still gets its annotation, of the
\* class its level calls for, with its title as text, or the fixed
\* placeholder when the title is empty; the diagnostics after it are
\* reported too, nothing is thrown, and the run fails only if some level
\* calls for an error.
C19_RenderingFaultRecovered ==
    (linted /\ \E j \in 1..Len(result) : ~result[j].renders) =>
        /\ ~caught.thrown
        /\ Len(annotations) = idx
        /\ pc \in {"comment", "done"} => idx = Len(result)
        /\ \A k \in 1..idx :
              /\ annotations[k].kind = ClassOfLevel(result[k].level)
              /\ ~result[k].renders =>
                    annotations[k].message =
                        (IF result[k].title = ""
                         THEN "<failed to render diagnostic, this is a bug in eipw>"
                         ELSE result[k].title)
        /\ (pc = "done" /\ \A k \in 1..Len(result) : result[k].level \in KnownBenign) =>
              failures = <<>>

\* C19 witness: the first diagnostic (Info, no title) failed to render and got
\* the placeholder as a notice; the second was reported after it; the run
\* passed.
C19_Witness ==
    /\ pc = "done"
    /\ Len(result) = 2
    /\ ~result[1].renders
    /\ result[1].title = ""
    /\ result[1].level = "Info"
    /\ result[2].renders
    /\ Len(annotations) = 2
    /\ annotations[1].kind = "notice"
    /\ annotations[1].message = Placeholder
    /\ failures = <<>>

\* The entries of the unchecked input written as legacy file names.
LegacyEntries ==
    {trim(split(env.uncheckedText, ",")[i]) : i \in 1..Len(split(env.uncheckedText, ","))}
        \cap {"eip-1.md", "eip-5.md", "eip-1234.md"}

\* C20: in the builds that read the unchecked input by number or by suffix
\* (main_ts, throttled), no file handed to the linter has the identifier of
\* an unchecked entry written as a legacy file name.
C20_LegacyNameExcludes ==
    (ver \in {"main_ts", "throttled"} /\ lintCalls # <<>>) =>
        \A e \in LegacyEntries : \A k \in 1..Len(lintCalls[1].files) :
            path2number(lintCalls[1].files[k]).num # path2number(e).num

\* An external call failed in this run: a request or the linter rejected, a
\* rate limit was let through, or a page came with another status. These are
\* not among the givens of a run.
ExternalFailure ==
    \/ caught \in ThrownValues
    \/ caught.message \in {"API rate limit exceeded",
                           "You have exceeded a secondary rate limit"}
    \/ status \notin {0, 200}

\* The selection as a function of the build, the inputs and the change set
\* alone (not of the page size).
GivenSelection ==
    SelectLoop(ver, srvChanges,
               [files |-> <<>>, seen |-> <<>>, error |-> NoError],
               IF ver = "main_ts" THEN IncludePatterns(env.includeText) ELSE <<>>,
               BuildUnchecked(ver, env.uncheckedText),
               env.workingDirectory)

\* The failure, if any, that the options file gives main_ts.
GivenOptionsFailure ==
    IF ver # "main_ts" \/ env.optionsFile = "" THEN <<>>
    ELSE IF optionsDisk.outcome = "unreadable"
         THEN <<"ENOENT: no such file or directory">>
    ELSE IF optionsDisk.outcome = "unparseable" THEN <<"Invalid TOML document">>
    ELSE IF NoRecognizedKey
         THEN <<"options-file must set at least one of lints or modifiers">>
    ELSE <<>>

\* The verdict (the setFailed messages) and the annotation list as functions
\* of the build, the trigger event, the inputs, the change set, the options
\* file and the linter output. sel is GivenSelection.
GivenOutcome(sel) ==
    IF env.token = ""
    THEN [failures |-> <<"Parameter token or opts.auth is required">>,
          annotations |-> <<>>]
    ELSE IF ~AcceptsEvent(ver, env.eventName)
         THEN [failures |-> <<>>, annotations |-> <<WrongEventWarning>>]
    ELSE IF sel.error.thrown
         THEN [failures |-> <<sel.error.message>>, annotations |-> <<>>]
    ELSE IF sel.files = <<>>
         THEN [failures |-> <<>>, annotations |-> <<NoFilesNotice>>]
    ELSE IF GivenOptionsFailure # <<>>
         THEN [failures |-> GivenOptionsFailure, annotations |-> <<>>]
    ELSE [failures |->
              IF \E k \in 1..Len(lintOutput) : lintOutput[k].level \notin KnownBenign
              THEN <<"validation found errors :(">> ELSE <<>>,
          annotations |-> [k \in 1..Len(lintOutput) |-> Annotate(lintOutput[k])]]

\* C21: the verdict and the ordered annotation list of a finished run in which
\* no external call failed are a function of the build, the trigger event, the
\* inputs, the change set, the options file and the linter output: two runs
\* that agree on these end with the same verdict and the same annotations,
\* whatever the page size and the number of rate-limit retries.
C21_OutcomeDetermined ==
    (pc = "done" /\ ~ExternalFailure) =>
        /\ failures = GivenOutcome(GivenSelection).failures
        /\ annotations = GivenOutcome(GivenSelection).annotations

\* C21 witness: a run over a two-entry change set fetched in pages of two,
\* both files selected, ended with the linter's verdict.
C21_Witness ==
    /\ pc = "done"
    /\ ManualPaging(ver)
    /\ perPage = 2
    /\ Len(srvChanges) = 2
    /\ Len(files) = 2
    /\ linted
    /\ ~ExternalFailure

LintFailure == "validation found errors :("

\* The stages in order, as seen in a state: the linter is called at most
\* once, and only when every entry of the change set has been visited, the
\* empty page has been seen (builds that page themselves) and the selection
\* is the whole one; before the linter returns no diagnostic is annotated;
\* the run is marked failed for lint findings only when every diagnostic has
\* its annotation.
StagesInOrder ==
    /\ Len(lintCalls) <= 1
    /\ lintCalls # <<>> =>
          /\ processed = srvChanges
          /\ files = GivenSelection.files
          /\ lintCalls[1].files = files
          /\ ManualPaging(ver) =>
                (pageReqs # <<>> /\ PageOf(srvChanges, perPage, Len(pageReqs)) = <<>>)
    /\ ~linted =>
          /\ idx = 0
          /\ \A k \in 1..Len(annotations) :
                annotations[k] \in {WrongEventWarning, NoFilesNotice}
    /\ (\E k \in 1..Len(failures) : failures[k] = LintFailure) =>
          /\ linted
          /\ idx = Len(result)
          /\ Len(annotations) = Len(result)

\* One request at a time: a step sends at most one page request, numbered
\* one more than the last, and sends it either at the start or in the step
\* that takes the answer to the request outstanding.
RequestsSerial ==
    Len(pageReqs') > Len(pageReqs) =>
        /\ pageReqs' = Append(pageReqs, Len(pageReqs) + 1)
        /\ \/ pc = "start" /\ pageReqs = <<>>
           \/ /\ pc = "awaitPage"
              /\ status' = 200
              /\ processed' = processed \o PageOf(srvChanges, perPage, Len(pageReqs))

\* C22: the stages of a run come one after the other: fetch and selection
\* before the single linter call, the linter's return before any diagnostic
\* annotation, every annotation before the run is marked failed for lint
\* findings, and never two page requests outstanding.
C22_StagesOrdered == []StagesInOrder /\ [][RequestsSerial]_vars

\* C22 witness: legacy_ts fetched two pages one after the other, called the
\* linter once, annotated both diagnostics, then marked the run failed.
C22_Witness ==
    /\ ver = "legacy_ts"
    /\ pageReqs = <<1, 2>>
    /\ Len(lintCalls) = 1
    /\ Len(result) = 2
    /\ Len(annotations) = 2
    /\ failures = <<LintFailure>>

\* hasErrors says whether a diagnostic reported so far calls for an error; it
\* is false until the reporting loop starts.
HasErrorsTracksReported ==
    /\ ~linted => ~hasErrors
    /\ linted =>
          (hasErrors <=> \E k \in 1..idx : result[k].level \notin KnownBenign)

\* C23: hasErrors starts false, is true at each point of the reporting loop
\* iff a diagnostic already reported has severity Error or an unrecognized
\* one, and no step sets it back to false.
C23_HasErrorsMonotone ==
    []HasErrorsTracksReported /\ [][hasErrors => hasErrors']_vars

\* C23 witness: an unrecognized severity set hasErrors, and an Info diagnostic
\* with a rendering fault reported after it left it set.
C23_Witness ==
    /\ linted
    /\ idx = 2
    /\ result[1].level = "Unknown"
    /\ result[2].level = "Info"
    /\ ~result[2].renders
    /\ hasErrors

\* C24: in main_ts, with the unchecked input empty, no file is excluded on
\* account of its identifier: once the selection loop has run to its end every
\* changed file that is not removed, matches an include pattern and has a
\* parseable identifier is among the files for the linter.
C24_EmptyUncheckedExcludesNothing ==
    (/\ ver = "main_ts"
     /\ env.uncheckedText = ""
     /\ pc \notin {"start", "awaitPaginate"}
     /\ fetched = srvChanges
     /\ processed = srvChanges
     /\ \A k \in 1..Len(srvChanges) : ~Unparseable(srvChanges[k])) =>
        /\ \A k \in 1..Len(srvChanges) :
              Extracted(srvChanges[k]) =>
                  \E j \in 1..Len(files) :
                      files[j] = PathJoin(env.workingDirectory, srvChanges[k].filename)
        /\ (pc = "done" /\ files # <<>> /\ ~caught.thrown) =>
              (lintCalls # <<>> /\ lintCalls[1].files = files)

====
